---- MODULE Spec2Model ----
(***************************************************************************)
(* Model of list.h: the generic doubly linked list generated per element   *)
(* type.  Nodes (struct list_T) live in a heap of MaxNodes cells; a list    *)
(* handle (struct list_sentinal_T) holds head, tail, length and the         *)
(* optional destructor.  Every macro of list.h is an operator from a        *)
(* machine state (a record) to a machine state, written statement by        *)
(* statement; the actions apply the operators to the current state.         *)
(***************************************************************************)
EXTENDS Integers, Sequences, FiniteSets, TLC

\* ------------------------------------------------------------- bounds
\* Number of heap cells malloc can hand out.
MaxNodes == 3
\* Longest initializer array given to the constructor.
MaxInit == 2

\* ------------------------------------------------------ program constants
\* The null pointer.
NULL == 0
\* length is a size_t: arithmetic on it is modulo SIZE_MOD.  The C standard
\* guarantees at least 16 bits; the model takes that least width.
SIZE_MOD == 65536

\* Element values (TYPE), the heap cells and the pointers to them.
Values == {1, 2}
Nodes == 1..MaxNodes
Ptr == Nodes \cup {NULL}

VARIABLES
    head,        \* the handle's head: first node of the list, or NULL
    tail,        \* the handle's tail: last node of the list, or NULL
    length,      \* the handle's length field (size_t)
    destructor,  \* whether the handle has a destructor (not NULL)
    next,        \* next[n]: the next field of heap cell n
    prev,        \* prev[n]: the prev field of heap cell n
    entry,       \* entry[n]: the value held by heap cell n
    alloc,       \* alloc[n]: cell n is allocated (malloc'ed and not freed)
    fault,       \* "none", or "segv" once an invalid access has trapped
    ub,          \* an invalid memory access has been executed
    calls,       \* destructor calls made by the last operation, in order
    ret,         \* value of the last macro / function call
    visits,      \* nodes the last traversal ran its callback on, in order
    stale,       \* the last traversal read a link of a node not in the list
    atcall,      \* what each destructor call of the last operation found
    last,        \* the last operation, its arguments and the state before it
    given        \* the constructor's inputs, until the first operation

vars == <<head, tail, length, destructor, next, prev, entry, alloc,
          fault, ub, calls, ret, visits, stale, atcall, last, given>>

\* ------------------------------------------------------- machine state
\* The current machine state as a record; the macros are operators on it.
St ==
    [head |-> head, tail |-> tail, length |-> length,
     destructor |-> destructor, next |-> next, prev |-> prev,
     entry |-> entry, alloc |-> alloc, fault |-> fault, ub |-> ub,
     calls |-> calls, ret |-> ret, visits |-> visits, stale |-> stale,
     atcall |-> atcall]

\* What an invalid address holds (garbage: a pointer g in both link fields
\* and a value), and whether touching it traps.
Oracles ==
    {[trap |-> TRUE, next |-> NULL, prev |-> NULL, entry |-> 1]}
    \cup {[trap |-> FALSE, next |-> g, prev |-> g, entry |-> v] :
             g \in Ptr, v \in Values}

\* The oracle handed to operations that touch no invalid address.
NoOracle == [trap |-> TRUE, next |-> NULL, prev |-> NULL, entry |-> 1]

\* p may be dereferenced: it is not NULL and points to an allocated cell.
Valid(s, p) == p # NULL /\ s.alloc[p]

\* s after dereferencing the pointers ps: an invalid one is undefined
\* behaviour, which traps (o.trap) or goes on with what o says the address holds.
Deref(s, ps, o) ==
    IF \A p \in ps : Valid(s, p) THEN s
    ELSE [s EXCEPT !.ub = TRUE,
                   !.fault = IF o.trap THEN "segv" ELSE s.fault]

\* The value read from p->f.
Load(s, p, f, o) == IF Valid(s, p) THEN s[f][p] ELSE o[f]

\* s after p->f = v (a write through an invalid pointer that does not trap
\* changes no cell of the model).
Store(s, p, f, v) == IF Valid(s, p) THEN [s EXCEPT ![f][p] = v] ELSE s

\* free(p): free(NULL) does nothing; freeing a cell that is not allocated is
\* undefined behaviour.  The contents of a freed cell are indeterminate.
Free(s, p, o) ==
    IF s.fault # "none" \/ p = NULL THEN s
    ELSE IF ~s.alloc[p] THEN Deref(s, {p}, o)
    ELSE [s EXCEPT !.alloc[p] = FALSE, !.next[p] = NULL,
                   !.prev[p] = NULL, !.entry[p] = 1]

\* Cells malloc may return.
FreeCells(s) == {n \in Nodes : ~s.alloc[n]}

\* malloc(sizeof(*new_entry)): the cells are interchangeable (no operation
\* looks at an address other than to compare it for equality), so malloc
\* hands out the lowest free cell.  Defined while a cell is free.
malloc(s) == CHOOSE n \in FreeCells(s) : \A m \in FreeCells(s) : n <= m

\* ------------------------------------------------------------ _LIST_ADD
\* _LIST_ADD(list, elem, top, bottom, direction, reverse)
LIST_ADD(s, elem, top, bottom, direction, reverse, o) ==
    LET new_entry == malloc(s)
        s1 == [s EXCEPT !.alloc[new_entry] = TRUE,
                        !.next[new_entry] = NULL,
                        !.prev[new_entry] = NULL,
                        !.entry[new_entry] = elem]
        s2 == IF s1[bottom] = NULL
              THEN [s1 EXCEPT ![bottom] = new_entry] ELSE s1
        s3 == IF s2[top] = NULL
              THEN [s2 EXCEPT ![top] = new_entry]
              ELSE LET t == s2[top]
                       a == Deref(s2, {t}, o)
                   IN IF a.fault # "none" THEN a
                      ELSE [Store(Store(a, t, direction, new_entry),
                                  new_entry, reverse, t)
                               EXCEPT ![top] = new_entry]
    IN IF s3.fault # "none" THEN s3
       ELSE LET n == (s3.length + 1) % SIZE_MOD
            IN [s3 EXCEPT !.length = n, !.ret = n]

LIST_APPEND(s, elem, o) ==
    LIST_ADD(s, elem, "tail", "head", "next", "prev", o)

\* Mutant: the end arguments are passed as LIST_APPEND passes them.
LIST_PREPEND_AtTail(s, elem, o) ==
    LIST_ADD(s, elem, "tail", "head", "next", "prev", o)

LIST_PREPEND(s, elem, o) ==
    LIST_ADD(s, elem, "head", "tail", "prev", "next", o)

\* ---------------------------------------------------------- LIST_REMOVE
\* The macro's elem argument is an expression, evaluated anew at each place
\* the macro body names it: a variable holding a node, or the handle's own
\* head or tail field.
Var(p) == [k |-> "var", p |-> p]
HeadField == [k |-> "head", p |-> NULL]
TailField == [k |-> "tail", p |-> NULL]

Eval(s, elem) ==
    CASE elem.k = "var" -> elem.p
      [] elem.k = "head" -> s.head
      [] elem.k = "tail" -> s.tail

\* Mutant: the predecessor's next is left pointing at the removed node.
REMOVE_PatchPrev_Dropped(s, elem, o) == s

\* if ((elem)->prev) (elem)->prev->next = (elem)->next;
REMOVE_PatchPrev(s, elem, o) ==
    LET e == Eval(s, elem)
        a == Deref(s, {e}, o)
        p == Load(s, e, "prev", o)
    IN IF s.fault # "none" THEN s
       ELSE IF a.fault # "none" \/ p = NULL THEN a
       ELSE LET b == Deref(a, {p}, o)
            IN IF b.fault # "none" THEN b
               ELSE Store(b, p, "next", Load(b, e, "next", o))

\* Mutant: the successor's prev is left pointing at the removed node.
REMOVE_PatchNext_Dropped(s, elem, o) == s

\* if ((elem)->next) (elem)->next->prev = (elem)->prev;
REMOVE_PatchNext(s, elem, o) ==
    LET e == Eval(s, elem)
        a == Deref(s, {e}, o)
        n == Load(s, e, "next", o)
    IN IF s.fault # "none" THEN s
       ELSE IF a.fault # "none" \/ n = NULL THEN a
       ELSE LET b == Deref(a, {n}, o)
            IN IF b.fault # "none" THEN b
               ELSE Store(b, n, "prev", Load(b, e, "prev", o))

\* Mutant: the head is left pointing at the removed node.
REMOVE_MoveHead_Dropped(s, elem, o) == s

\* if ((elem) == (list)->head) (list)->head = (list)->head->next;
REMOVE_MoveHead(s, elem, o) ==
    IF s.fault # "none" \/ Eval(s, elem) # s.head THEN s
    ELSE LET a == Deref(s, {s.head}, o)
         IN IF a.fault # "none" THEN a
            ELSE [a EXCEPT !.head = Load(a, a.head, "next", o)]

\* Mutant: the tail moves along next, as the head does.
REMOVE_MoveTail_WrongField(s, elem, o) ==
    IF s.fault # "none" \/ Eval(s, elem) # s.tail THEN s
    ELSE [s EXCEPT !.tail = Load(s, s.tail, "next", o)]

\* if ((elem) == (list)->tail) (list)->tail = (list)->tail->prev;
REMOVE_MoveTail(s, elem, o) ==
    IF s.fault # "none" \/ Eval(s, elem) # s.tail THEN s
    ELSE LET a == Deref(s, {s.tail}, o)
         IN IF a.fault # "none" THEN a
            ELSE [a EXCEPT !.tail = Load(a, a.tail, "prev", o)]

\* (list)->length--;  the macro's value is that of this last expression.
REMOVE_Decrement(s) ==
    IF s.fault # "none" THEN s
    ELSE [s EXCEPT !.length = (s.length - 1) % SIZE_MOD,
                   !.ret = s.length]

\* Mutant: the removed node's own links are cleared.
LIST_REMOVE_Unhooked(s, elem, o) ==
    LET e == Eval(s, elem)
        r == REMOVE_MoveTail(
                 REMOVE_MoveHead(
                     REMOVE_PatchNext(
                         REMOVE_PatchPrev(s, elem, o),
                         elem, o),
                     elem, o),
                 elem, o)
    IN REMOVE_Decrement(Store(Store(r, e, "next", NULL), e, "prev", NULL))

LIST_REMOVE(s, elem, o) ==
    REMOVE_Decrement(
        REMOVE_MoveTail(
            REMOVE_MoveHead(
                REMOVE_PatchNext(
                    REMOVE_PatchPrev(s, elem, o),
                    elem, o),
                elem, o),
            elem, o))

\* ------------------------------------------------------------- walks
\* The nodes met walking field f from p (p = p->f while p), cut off after
\* fuel steps so that a walk of a corrupted list is still a value.
RECURSIVE Walk(_, _, _, _)
Walk(s, p, f, fuel) ==
    IF p = NULL \/ fuel = 0 THEN <<>>
    ELSE <<p>> \o Walk(s, s[f][p], f, fuel - 1)

Fwd(s) == Walk(s, s.head, "next", MaxNodes + 1)
Bwd(s) == Walk(s, s.tail, "prev", MaxNodes + 1)

Range(q) == {q[i] : i \in 1..Len(q)}
Reverse(q) == [i \in 1..Len(q) |-> q[Len(q) + 1 - i]]
ValuesOf(s, q) == [i \in 1..Len(q) |-> s.entry[q[i]]]

\* The nodes linked into the list.
Members(s) == Range(Fwd(s))

\* The allocated nodes not linked into the list: LIST_REMOVE took them out
\* "without deleteing" them, and the caller holds them.
Held(s) == {n \in Nodes : s.alloc[n] /\ n \notin Members(s)}

\* The structural invariants of the list in machine state s: the boundary
\* pointers agree with length, the links are mutual, and the two walks
\* visit the same length nodes.
WellFormed(s) ==
    /\ (s.head = NULL) <=> (s.tail = NULL)
    /\ (s.head = NULL) <=> (s.length = 0)
    /\ s.length = 1 => s.head = s.tail
    /\ \A n \in Members(s) \cup Range(Bwd(s)) :
         /\ s.next[n] # NULL => s.prev[s.next[n]] = n
         /\ s.prev[n] # NULL => s.next[s.prev[n]] = n
         /\ (s.prev[n] = NULL) <=> (n = s.head)
         /\ (s.next[n] = NULL) <=> (n = s.tail)
    /\ Fwd(s) = Reverse(Bwd(s))
    /\ Len(Fwd(s)) = s.length

\* ------------------------------------------------------------- LIST_DEL
\* What a destructor call finds when it is made on node e in state s:
\* whether e is still allocated, whether it is still linked into the list,
\* the length field, and whether the list is well formed.
Found(s, e) ==
    [live |-> Valid(s, e),
     linked |-> e \in Members(s) \cup Range(Bwd(s)),
     len |-> s.length,
     ok |-> WellFormed(s)]

\* Mutant: the destructor is called without the test that there is one.
DEL_Destruct_Unchecked(s, elem, o) ==
    IF s.fault # "none" THEN s
    ELSE LET e == Eval(s, elem)
             a == Deref(s, {e}, o)
         IN IF a.fault # "none" THEN a
            ELSE [a EXCEPT !.calls = Append(a.calls, Load(a, e, "entry", o)),
                           !.atcall = Append(a.atcall, Found(a, e))]

\* if ((list)->destructor) (list)->destructor((elem)->entry);
DEL_Destruct(s, elem, o) ==
    IF s.fault # "none" \/ ~s.destructor THEN s
    ELSE LET e == Eval(s, elem)
             a == Deref(s, {e}, o)
         IN IF a.fault # "none" THEN a
            ELSE [a EXCEPT !.calls = Append(a.calls, Load(a, e, "entry", o)),
                           !.atcall = Append(a.atcall, Found(a, e))]

\* Mutant: the destructor is called before the node is unlinked.
LIST_DEL_DestructFirst(s, elem, o) ==
    LET r == LIST_REMOVE(DEL_Destruct(s, elem, o), elem, o)
    IN Free(r, Eval(r, elem), o)

\* Mutant: the node is released before it is unlinked.
LIST_DEL_FreeFirst(s, elem, o) ==
    LET r == Free(s, Eval(s, elem), o)
    IN DEL_Destruct(LIST_REMOVE(r, elem, o), elem, o)

LIST_DEL(s, elem, o) ==
    LET r == DEL_Destruct(LIST_REMOVE(s, elem, o), elem, o)
    IN Free(r, Eval(r, elem), o)

\* ------------------------------------------------------------ _LIST_POP
\* _LIST_POP(list, sentinal): sentinal is "head" or "tail".
LIST_POP(s, sentinal, o) ==
    LET temp == s[sentinal]
        r == LIST_REMOVE(s, Var(temp), o)
        a == Deref(r, {temp}, o)
        retval == Load(r, temp, "entry", o)
    IN IF r.fault # "none" THEN r
       ELSE IF a.fault # "none" THEN a
       ELSE [Free(a, temp, o) EXCEPT !.ret = retval]

LIST_POPF(s, o) == LIST_POP(s, "head", o)

\* Mutant: the back pop takes the node at the head.
LIST_POPB_AtHead(s, o) == LIST_POP(s, "head", o)

LIST_POPB(s, o) == LIST_POP(s, "tail", o)

\* ------------------------------------------------------ the callbacks
\* A callback is the code the caller hands to a traversal.  cb.k says what
\* it does to the current node var and cb.at at which steps of the walk
\* (the first node visited is step 1) it does so; at the other steps it
\* only looks at the node.
\*   "none"          nothing
\*   "inc"           var->entry++          (list_test.c, int_test)
\*   "del"           LIST_DEL(list, var)   (list_test.c, int_test)
\*   "remove"        LIST_REMOVE(list, var)
\*   "popf", "popb"  LIST_POPF(list), LIST_POPB(list)
Plan(k, at) == [k |-> k, at |-> at]

\* The callback that does k at every step.
EveryStep(k) == Plan(k, Nat)

\* v++ on the element type, which has the values of Values: the increment
\* of the largest wraps to the smallest, as it does for an unsigned TYPE.
Incr(v) == IF v + 1 \in Values THEN v + 1 ELSE 1

\* The callback run on the current node var.
Callback(s, cb, var, o) ==
    LET v == [s EXCEPT !.visits = Append(s.visits, var)]
    IN IF Len(v.visits) \notin cb.at THEN v
       ELSE CASE cb.k = "del" -> LIST_DEL(v, Var(var), o)
              [] cb.k = "remove" -> LIST_REMOVE(v, Var(var), o)
              [] cb.k = "popf" -> LIST_POPF(v, o)
              [] cb.k = "popb" -> LIST_POPB(v, o)
              [] cb.k = "inc" ->
                   LET a == Deref(v, {var}, o)
                   IN IF a.fault # "none" THEN a
                      ELSE Store(a, var, "entry",
                                 Incr(Load(a, var, "entry", o)))
              [] OTHER -> v

\* s after the walk has read a link field of node p: reading a cell that is
\* not allocated is undefined behaviour; stale records that p was not a
\* node of the list when the walk read it.
Touch(s, p, o) ==
    IF s.fault # "none" THEN s
    ELSE [Deref(s, {p}, o) EXCEPT !.stale = s.stale \/ p \notin Members(s)]

\* A walk that has run the callback more often than there are cells has
\* left the list (it can only do so after an invalid access): it is cut off
\* as a run that does not come back.
Runaway(s) == Len(s.visits) > MaxNodes

\* ------------------------------------------------------- _LIST_FOR_EACH
RECURSIVE FOR_EACH_Loop(_, _, _, _, _)

\* Mutant: the next node is read from the current one before the callback
\* runs.
FOR_EACH_Loop_Early(s, var, direction, cb, o) ==
    IF s.fault # "none" \/ var = NULL THEN s
    ELSE IF Runaway(s) THEN [s EXCEPT !.fault = "runaway"]
    ELSE FOR_EACH_Loop(Callback(Touch(s, var, o), cb, var, o),
                       Load(s, var, direction, o), direction, cb, o)

\* while (var) { callback; var = var->direction; }
FOR_EACH_Loop(s, var, direction, cb, o) ==
    IF s.fault # "none" \/ var = NULL THEN s
    ELSE IF Runaway(s) THEN [s EXCEPT !.fault = "runaway"]
    ELSE LET r == Callback(s, cb, var, o)
         IN FOR_EACH_Loop(Touch(r, var, o), Load(r, var, direction, o),
                          direction, cb, o)

\* _LIST_FOR_EACH(list, var, sentinal, direction, callback)
LIST_FOR_EACH_(s, sentinal, direction, cb, o) ==
    FOR_EACH_Loop(s, s[sentinal], direction, cb, o)

LIST_FOR_EACH(s, cb, o) == LIST_FOR_EACH_(s, "head", "next", cb, o)

\* Mutant: the reverse walk follows next.
LIST_FOR_EACH_REV_AlongNext(s, cb, o) ==
    LIST_FOR_EACH_(s, "tail", "next", cb, o)

LIST_FOR_EACH_REV(s, cb, o) == LIST_FOR_EACH_(s, "tail", "prev", cb, o)

\* --------------------------------------------------- _LIST_FOR_EACH_SAFE
RECURSIVE FOR_EACH_SAFE_Loop(_, _, _, _, _, _)

\* Mutant: the next node is read from the current one after the callback
\* has run, as _LIST_FOR_EACH does.
FOR_EACH_SAFE_Loop_Late(s, var, temp, direction, cb, o) ==
    IF s.fault # "none" \/ var = NULL THEN s
    ELSE IF Runaway(s) THEN [s EXCEPT !.fault = "runaway"]
    ELSE LET r == Callback(s, cb, var, o)
         IN FOR_EACH_SAFE_Loop(Touch(r, var, o), Load(r, var, direction, o),
                               NULL, direction, cb, o)

\* while (var) { callback; var = temp; if (var) temp = var->direction; }
FOR_EACH_SAFE_Loop(s, var, temp, direction, cb, o) ==
    IF s.fault # "none" \/ var = NULL THEN s
    ELSE IF Runaway(s) THEN [s EXCEPT !.fault = "runaway"]
    ELSE LET r == Callback(s, cb, var, o)
             a == IF temp = NULL THEN r ELSE Touch(r, temp, o)
             t == IF temp = NULL THEN temp ELSE Load(r, temp, direction, o)
         IN FOR_EACH_SAFE_Loop(a, temp, t, direction, cb, o)

\* Mutant: temp is read from var without the test that var is a node.
LIST_FOR_EACH_SAFE_Unchecked(s, sentinal, direction, cb, o) ==
    LET var == s[sentinal]
    IN FOR_EACH_SAFE_Loop(Touch(s, var, o), var,
                          Load(s, var, direction, o), direction, cb, o)

\* _LIST_FOR_EACH_SAFE(list, var, temp, sentinal, direction, callback)
LIST_FOR_EACH_SAFE_(s, sentinal, direction, cb, o) ==
    LET var == s[sentinal]
        a == IF var = NULL THEN s ELSE Touch(s, var, o)
        temp == IF var = NULL THEN NULL ELSE Load(s, var, direction, o)
    IN FOR_EACH_SAFE_Loop(a, var, temp, direction, cb, o)

LIST_FOR_EACH_SAFE(s, cb, o) ==
    LIST_FOR_EACH_SAFE_(s, "head", "next", cb, o)

LIST_FOR_EACH_REV_SAFE(s, cb, o) ==
    LIST_FOR_EACH_SAFE_(s, "tail", "prev", cb, o)

\* Mutant: the list is destroyed from the tail backwards.
LIST_DESTROY_Backwards(s, o) == LIST_FOR_EACH_REV_SAFE(s, EveryStep("del"), o)

\* LIST_DESTROY(list)
LIST_DESTROY(s, o) == LIST_FOR_EACH_SAFE(s, EveryStep("del"), o)

\* ----------------------------------------------------- LIST_CONSTRUCTOR
\* An initializer argument: absent (a NULL pointer) or an array.
Absent == [present |-> FALSE, arr |-> <<>>]
Array(a) == [present |-> TRUE, arr |-> a]

\* for (size_t i = 0; i < len; i++) LIST_APPEND(&data, initializer[i]);
\* (initializer[i] is arr[i + 1]: sequences count from 1.)
RECURSIVE CONSTRUCTOR_Loop(_, _, _, _)
CONSTRUCTOR_Loop(s, arr, len, i) ==
    IF ~(i < len) THEN s
    ELSE CONSTRUCTOR_Loop(LIST_APPEND(s, arr[i + 1], NoOracle),
                          arr, len, i + 1)

\* Mutant: the loop stops one element early (i < len - 1).
new_list_OneShort(s, initializer, len, d) ==
    LET data == [s EXCEPT !.head = NULL, !.tail = NULL,
                          !.length = 0, !.destructor = d]
    IN IF ~initializer.present THEN data
       ELSE CONSTRUCTOR_Loop(data, initializer.arr, len - 1, 0)

\* new_list_T(initializer, len, d), run on machine state s.
new_list(s, initializer, len, d) ==
    LET data == [s EXCEPT !.head = NULL, !.tail = NULL,
                          !.length = 0, !.destructor = d]
    IN IF ~initializer.present THEN data
       ELSE CONSTRUCTOR_Loop(data, initializer.arr, len, 0)

\* ---------------------------------------------------------------- Init
\* The machine before the constructor has run: no cell allocated.
Blank ==
    [head |-> NULL, tail |-> NULL, length |-> 0, destructor |-> FALSE,
     next |-> [n \in Nodes |-> NULL], prev |-> [n \in Nodes |-> NULL],
     entry |-> [n \in Nodes |-> 1], alloc |-> [n \in Nodes |-> FALSE],
     fault |-> "none", ub |-> FALSE, calls |-> <<>>, ret |-> 0,
     visits |-> <<>>, stale |-> FALSE, atcall |-> <<>>]

\* The arrays a caller may hand to the constructor, and the (initializer,
\* len) pairs: len is the array's length, or anything when it is absent.
Arrays == UNION {[1..k -> Values] : k \in 0..MaxInit}
Inputs ==
    {[initializer |-> Array(a), len |-> Len(a)] : a \in Arrays}
    \cup {[initializer |-> Absent, len |-> k] : k \in 0..MaxInit}

\* Number of mallocs the constructor makes for input in.
Mallocs(in) == IF in.initializer.present THEN in.len ELSE 0

\* What LIST_REMOVE and LIST_DEL are there to change: the handle, the
\* cells, and the destructor calls made.
Core(s) ==
    [head |-> s.head, tail |-> s.tail, length |-> s.length,
     next |-> s.next, prev |-> s.prev, entry |-> s.entry,
     alloc |-> s.alloc, calls |-> s.calls]

\* The record of the last operation: its name, the node and value it was
\* about, whether it broke the contract, and the list, the allocated cells
\* and the destructor field before it; for a traversal, the end it started
\* from and its callback; for a call whose node argument was written as
\* the handle's own field (form "field"), that field (dir) and the state
\* the same call leaves when the node is first put in a variable.
Op(op, node, val, misuse) ==
    [op |-> op, node |-> node, val |-> val, misuse |-> misuse,
     fwd |-> Fwd(St), vals |-> ValuesOf(St, Fwd(St)), len |-> length,
     alloc |-> alloc, d |-> destructor,
     dir |-> "head", cb |-> Plan("none", {}),
     form |-> "var", want |-> Core(Blank)]

\* The record of a traversal from end sentinal with callback cb.
OpWalk(op, sentinal, cb, misuse) ==
    [Op(op, NULL, 1, misuse) EXCEPT !.dir = sentinal, !.cb = cb]

\* The variables take the values of machine state s.
Commit(s) ==
    /\ head' = s.head
    /\ tail' = s.tail
    /\ length' = s.length
    /\ destructor' = s.destructor
    /\ next' = s.next
    /\ prev' = s.prev
    /\ entry' = s.entry
    /\ alloc' = s.alloc
    /\ fault' = s.fault
    /\ ub' = s.ub
    /\ calls' = s.calls
    /\ ret' = s.ret
    /\ visits' = s.visits
    /\ stale' = s.stale
    /\ atcall' = s.atcall

\* The handle has been built by the constructor.
Init ==
    \E in \in Inputs, d \in BOOLEAN :
      /\ Mallocs(in) <= MaxNodes
      /\ LET s == new_list(Blank, in.initializer, in.len, d)
         IN /\ head = s.head
            /\ tail = s.tail
            /\ length = s.length
            /\ destructor = s.destructor
            /\ next = s.next
            /\ prev = s.prev
            /\ entry = s.entry
            /\ alloc = s.alloc
            /\ fault = s.fault
            /\ ub = s.ub
            /\ calls = s.calls
            /\ ret = 0
            /\ visits = s.visits
            /\ stale = s.stale
            /\ atcall = s.atcall
      /\ given = in
      /\ last = [op |-> "construct", node |-> NULL, val |-> 1,
                 misuse |-> FALSE, fwd |-> <<>>, vals |-> <<>>, len |-> 0,
                 alloc |-> [n \in Nodes |-> FALSE], d |-> d,
                 dir |-> "head", cb |-> Plan("none", {}),
                 form |-> "var", want |-> Core(Blank)]

\* ------------------------------------------------------------- actions
\* The caller may go on: nothing has trapped, the contract was kept, and
\* the node arguments were variables.
Usable == fault = "none" /\ ~last.misuse /\ last.form = "var"

\* A traversal that removes nodes hands them to the caller, who otherwise
\* holds one removed node at a time: holding more, it frees them first.
\* Ready: the caller may make a call other than LIST_DESTROY and free.
Ready == Usable /\ \A m, n \in Held(St) : m = n

\* The i-th node of the list is heap cell i.
InOrder(s) == \A i \in 1..Len(Fwd(s)) : Fwd(s)[i] = i

\* The caller may start a traversal: it holds no node that LIST_REMOVE took
\* out.  The heap cells are interchangeable (no operation looks at an
\* address other than to compare it for equality), and the constructor and
\* LIST_APPEND build every list of values with its nodes in address order,
\* so the traversals are run on the lists laid out in that order.
MayWalk == Ready /\ Held(St) = {} /\ InOrder(St)

\* The machine state an operation starts from.
Start ==
    [St EXCEPT !.calls = <<>>, !.visits = <<>>, !.stale = FALSE,
               !.atcall = <<>>]

\* given once an operation has run.
Consumed == [initializer |-> Absent, len |-> 0]

\* LIST_APPEND(&list, v) and LIST_PREPEND(&list, v).
DoAppend(v) ==
    /\ Ready
    /\ FreeCells(St) # {}
    /\ Commit(LIST_APPEND(Start, v, NoOracle))
    /\ last' = Op("append", malloc(St), v, FALSE)
    /\ given' = Consumed

DoPrepend(v) ==
    /\ Ready
    /\ FreeCells(St) # {}
    /\ Commit(LIST_PREPEND(Start, v, NoOracle))
    /\ last' = Op("prepend", malloc(St), v, FALSE)
    /\ given' = Consumed

\* LIST_REMOVE(&list, n) on a node n linked into the list; the caller keeps
\* n, and holds one removed node at a time.
DoRemove(n) ==
    /\ Ready
    /\ n \in Members(St)
    /\ Held(St) = {}
    /\ Commit(LIST_REMOVE(Start, Var(n), NoOracle))
    /\ last' = Op("remove", n, entry[n], FALSE)
    /\ given' = Consumed

\* free(n) by the caller, of the node n it holds after LIST_REMOVE.
DoRelease(n) ==
    /\ Usable
    /\ n \in Held(St)
    /\ Commit([Free(Start, n, NoOracle) EXCEPT !.ret = 0])
    /\ last' = Op("release", n, entry[n], FALSE)
    /\ given' = Consumed

\* LIST_DEL(&list, n) on a node n linked into the list.
DoDel(n) ==
    /\ Ready
    /\ n \in Members(St)
    /\ Commit([LIST_DEL(Start, Var(n), NoOracle) EXCEPT !.ret = 0])
    /\ last' = Op("del", n, entry[n], FALSE)
    /\ given' = Consumed

\* LIST_POPF(&list) and LIST_POPB(&list) on a list that is not empty.
DoPopF ==
    /\ Ready
    /\ length # 0
    /\ Commit(LIST_POPF(Start, NoOracle))
    /\ last' = Op("popf", head, 1, FALSE)
    /\ given' = Consumed

DoPopB ==
    /\ Ready
    /\ length # 0
    /\ Commit(LIST_POPB(Start, NoOracle))
    /\ last' = Op("popb", tail, 1, FALSE)
    /\ given' = Consumed

\* LIST_DESTROY(&list).
DoDestroy ==
    /\ Usable
    /\ Commit([LIST_DESTROY(Start, NoOracle) EXCEPT !.ret = 0])
    /\ last' = Op("destroy", NULL, 1, FALSE)
    /\ given' = Consumed

\* The steps of a walk of the list as it is: 1 .. number of nodes.
Steps == 1..Len(Fwd(St))

\* The callbacks the deletion-safe traversals are run with: one that only
\* looks, and those that delete, or remove, the current node at the steps
\* of a set at.
SafePlans ==
    {Plan("none", {})}
    \cup {Plan(k, at) : k \in {"del", "remove"}, at \in SUBSET Steps \ {{}}}

\* LIST_FOR_EACH_SAFE / LIST_FOR_EACH_REV_SAFE with callback cb.
SafeWalk(s, sentinal, cb, o) ==
    IF sentinal = "head" THEN LIST_FOR_EACH_SAFE(s, cb, o)
    ELSE LIST_FOR_EACH_REV_SAFE(s, cb, o)

DoForEachSafe ==
    /\ MayWalk
    /\ \E sentinal \in {"head", "tail"}, cb \in SafePlans :
         /\ Commit([SafeWalk(Start, sentinal, cb, NoOracle) EXCEPT !.ret = 0])
         /\ last' = OpWalk("foreach_safe", sentinal, cb, FALSE)
    /\ given' = Consumed

\* The callbacks the read-only traversals are run with inside the contract:
\* they increment the current node's value at the steps of a set at.
ReadPlans == {Plan("inc", at) : at \in SUBSET Steps}

\* LIST_FOR_EACH / LIST_FOR_EACH_REV with callback cb.
ReadWalk(s, sentinal, cb, o) ==
    IF sentinal = "head" THEN LIST_FOR_EACH(s, cb, o)
    ELSE LIST_FOR_EACH_REV(s, cb, o)

DoForEach ==
    /\ MayWalk
    /\ \E sentinal \in {"head", "tail"}, cb \in ReadPlans :
         /\ Commit([ReadWalk(Start, sentinal, cb, NoOracle) EXCEPT !.ret = 0])
         /\ last' = OpWalk("foreach", sentinal, cb, FALSE)
    /\ given' = Consumed

\* The oracles that tell outcomes of an operation apart: all of them when
\* the operation, run to its first invalid access (r), made one.
OraclesFor(r) == IF r.ub THEN Oracles ELSE {NoOracle}

\* Outside the contract: a pop on an empty list.
DoPopEmpty(sentinal) ==
    /\ Ready
    /\ length = 0
    /\ \E o \in OraclesFor(LIST_POP(Start, sentinal, NoOracle)) :
         Commit(LIST_POP(Start, sentinal, o))
    /\ last' = Op(IF sentinal = "head" THEN "popf" ELSE "popb",
                  NULL, 1, TRUE)
    /\ given' = Consumed

\* Outside the contract: LIST_REMOVE / LIST_DEL on an allocated node that is
\* not linked into the list (one LIST_REMOVE has already taken out).
DoRemoveForeign(n) ==
    /\ Ready
    /\ n \in Held(St)
    /\ \E o \in OraclesFor(LIST_REMOVE(Start, Var(n), NoOracle)) :
         Commit(LIST_REMOVE(Start, Var(n), o))
    /\ last' = Op("remove", n, entry[n], TRUE)
    /\ given' = Consumed

DoDelForeign(n) ==
    /\ Ready
    /\ n \in Held(St)
    /\ \E o \in OraclesFor(LIST_DEL(Start, Var(n), NoOracle)) :
         Commit([LIST_DEL(Start, Var(n), o) EXCEPT !.ret = 0])
    /\ last' = Op("del", n, entry[n], TRUE)
    /\ given' = Consumed

\* LIST_REMOVE(&list, list.head) and LIST_REMOVE(&list, list.tail): the node
\* argument is the handle's own field f, on a list that is not empty.
FieldArg(f) == IF f = "head" THEN HeadField ELSE TailField

DoRemoveField(f) ==
    /\ Ready
    /\ length # 0
    /\ \E o \in OraclesFor(LIST_REMOVE(Start, FieldArg(f), NoOracle)) :
         Commit(LIST_REMOVE(Start, FieldArg(f), o))
    /\ last' = [Op("remove", St[f], entry[St[f]], FALSE) EXCEPT
                  !.form = "field", !.dir = f,
                  !.want = Core(LIST_REMOVE(Start, Var(St[f]), NoOracle))]
    /\ given' = Consumed

\* LIST_DEL(&list, list.head) and LIST_DEL(&list, list.tail).
DoDelField(f) ==
    /\ Ready
    /\ length # 0
    /\ \E o \in OraclesFor(LIST_DEL(Start, FieldArg(f), NoOracle)) :
         Commit([LIST_DEL(Start, FieldArg(f), o) EXCEPT !.ret = 0])
    /\ last' = [Op("del", St[f], entry[St[f]], FALSE) EXCEPT
                  !.form = "field", !.dir = f,
                  !.want = Core(LIST_DEL(Start, Var(St[f]), NoOracle))]
    /\ given' = Consumed

\* One step of the walk, or all its steps.
OneOrAll == {Steps} \cup {{i} : i \in Steps}

\* Outside the contract: a read-only traversal whose callback deletes or
\* removes the current node, or pops it (the first node of the walk is the
\* one the pop at that end takes), at the steps of a set at.
MutatingPlans(sentinal) ==
    {Plan(k, at) : k \in {"del", "remove"}, at \in OneOrAll \ {{}}}
    \cup {Plan(IF sentinal = "head" THEN "popf" ELSE "popb", at) :
             at \in {a \in OneOrAll : 1 \in a}}

DoForEachMutating ==
    /\ MayWalk
    /\ \E sentinal \in {"head", "tail"} :
         \E cb \in MutatingPlans(sentinal) :
           /\ \E o \in OraclesFor(ReadWalk(Start, sentinal, cb, NoOracle)) :
                Commit([ReadWalk(Start, sentinal, cb, o) EXCEPT !.ret = 0])
           /\ last' = OpWalk("foreach", sentinal, cb, TRUE)
    /\ given' = Consumed

Next ==
    \/ \E v \in Values : DoAppend(v)
    \/ \E v \in Values : DoPrepend(v)
    \/ \E n \in Nodes : DoRemove(n)
    \/ \E n \in Nodes : DoRelease(n)
    \/ \E n \in Nodes : DoDel(n)
    \/ DoPopF
    \/ DoPopB
    \/ DoDestroy
    \/ \E sentinal \in {"head", "tail"} : DoPopEmpty(sentinal)
    \/ \E n \in Nodes : DoRemoveForeign(n)
    \/ \E n \in Nodes : DoDelForeign(n)
    \/ \E f \in {"head", "tail"} : DoRemoveField(f)
    \/ \E f \in {"head", "tail"} : DoDelField(f)
    \/ DoForEachSafe
    \/ DoForEach
    \/ DoForEachMutating

Spec == Init /\ [][Next]_vars

\* ============================================================== claims
\* The caller has kept the contract so far: every remove / delete was given
\* a node linked into the list and every pop found the list not empty.
\* The node arguments of remove and delete were variables holding the node
\* (as in _LIST_POP, LIST_DESTROY and list_test.c), not the handle's field.
InContract == ~last.misuse /\ last.form = "var"

\* Within the contract no operation makes an invalid memory access, so the
\* outcome of no operation depends on an oracle.
ContractNoUB == InContract => (~ub /\ fault = "none")

\* The handle's boundary pointers agree with its length.
BoundaryOK ==
    /\ (head = NULL) <=> (tail = NULL)
    /\ (head = NULL) <=> (length = 0)
    /\ length = 1 => head = tail

LinksOK ==
    \A n \in Members(St) \cup Range(Bwd(St)) :
      /\ next[n] # NULL => prev[next[n]] = n
      /\ prev[n] # NULL => next[prev[n]] = n
      /\ (prev[n] = NULL) <=> (n = head)
      /\ (next[n] = NULL) <=> (n = tail)

WalksOK ==
    /\ Fwd(St) = Reverse(Bwd(St))
    /\ Len(Fwd(St)) = length

Without(q, i) == [j \in 1..(Len(q) - 1) |-> IF j < i THEN q[j] ELSE q[j + 1]]

\* The input sequence S the constructor was given: empty when absent.
GivenSeq == IF given.initializer.present THEN given.initializer.arr ELSE <<>>

\* C4: construct(S) yields a list of length |S| whose forward walk reads S
\* and whose reverse walk reads S reversed; an absent initializer yields the
\* empty list whatever len is.
C4_ConstructReproduces ==
    last.op = "construct" =>
      /\ length = Len(GivenSeq)
      /\ ValuesOf(St, Fwd(St)) = GivenSeq
      /\ ValuesOf(St, Bwd(St)) = Reverse(GivenSeq)
      /\ Len(GivenSeq) = 0 => (head = NULL /\ tail = NULL)
      /\ ~given.initializer.present => (head = NULL /\ tail = NULL /\ length = 0)

\* The constructor has been given an array of two different values.
C4_Witness ==
    /\ last.op = "construct"
    /\ given.initializer.present
    /\ given.len = 2
    /\ given.initializer.arr[1] # given.initializer.arr[2]
    /\ entry[head] = given.initializer.arr[1]
    /\ entry[tail] = given.initializer.arr[2]

\* C5: append and prepend each increase length by exactly 1 and return the
\* new length; the new node, holding v, becomes the tail (append) or the
\* head (prepend); the elements present before keep their order and values.
C5_AddAtBoundary ==
    /\ last.op = "append" =>
         /\ length = last.len + 1
         /\ ret = length
         /\ tail = last.node
         /\ last.node \notin Range(last.fwd)
         /\ Fwd(St) = last.fwd \o <<last.node>>
         /\ ValuesOf(St, Fwd(St)) = last.vals \o <<last.val>>
    /\ last.op = "prepend" =>
         /\ length = last.len + 1
         /\ ret = length
         /\ head = last.node
         /\ last.node \notin Range(last.fwd)
         /\ Fwd(St) = <<last.node>> \o last.fwd
         /\ ValuesOf(St, Fwd(St)) = <<last.val>> \o last.vals

\* A value has been prepended to a list of two.
C5_Witness ==
    /\ last.op = "prepend"
    /\ last.len = 2
    /\ length = 3
    /\ ret = 3
    /\ entry[head] = last.val

\* C6: on a list that is not empty popFront returns the head's value and
\* popBack the tail's; each decreases length by exactly 1, releases exactly
\* that boundary node and leaves the other elements in their order.
C6_PopBoundary ==
    /\ (last.op = "popf" /\ InContract) =>
         /\ ret = last.vals[1]
         /\ last.node = last.fwd[1]
         /\ Fwd(St) = Tail(last.fwd)
         /\ ValuesOf(St, Fwd(St)) = Tail(last.vals)
    /\ (last.op = "popb" /\ InContract) =>
         /\ ret = last.vals[Len(last.vals)]
         /\ last.node = last.fwd[Len(last.fwd)]
         /\ Fwd(St) = SubSeq(last.fwd, 1, Len(last.fwd) - 1)
         /\ ValuesOf(St, Fwd(St)) = SubSeq(last.vals, 1, Len(last.vals) - 1)
    /\ (last.op \in {"popf", "popb"} /\ InContract) =>
         /\ length = last.len - 1
         /\ \A n \in Nodes : alloc[n] <=> (last.alloc[n] /\ n # last.node)
         /\ calls = <<>>

\* The back of a list of three whose ends hold different values has been
\* popped.
C6_Witness ==
    /\ InContract
    /\ last.op = "popb"
    /\ Len(last.fwd) = 3
    /\ last.vals[1] # last.vals[3]
    /\ ret = last.vals[3]
    /\ length = 2

\* C7: a pop on a list of length 0 is reported as an error: it dereferences
\* no absent node and leaves head, tail and length unchanged.
C7_PopEmptyReported ==
    (last.misuse /\ last.op \in {"popf", "popb"}) =>
      /\ ~ub
      /\ fault = "none"
      /\ head = NULL
      /\ tail = NULL
      /\ length = 0

\* The place of the removed node in the list before the operation.
RemovedAt == CHOOSE i \in 1..Len(last.fwd) : last.fwd[i] = last.node

C9_RemoveReturnsNewLength ==
    (last.op = "remove" /\ InContract) => ret = length

\* C10: remove or delete given a node that is not linked into the list is
\* reported as an error: head, tail, length and the members' links stay as
\* they were and the structural invariants still hold.
C10_ForeignNodeReported ==
    (last.misuse /\ last.op \in {"remove", "del"}) =>
      /\ ~ub
      /\ fault = "none"
      /\ Fwd(St) = last.fwd
      /\ Bwd(St) = Reverse(last.fwd)
      /\ length = last.len
      /\ BoundaryOK
      /\ LinksOK
      /\ WalksOK

\* The nodes of the list before the last traversal in the link order of
\* its direction, and their values.
Order == IF last.dir = "head" THEN last.fwd ELSE Reverse(last.fwd)
OrderVals == IF last.dir = "head" THEN last.vals ELSE Reverse(last.vals)

\* The elements of q at the places of the set at, from place i on.
RECURSIVE Pick(_, _, _)
Pick(q, at, i) ==
    IF i > Len(q) THEN <<>>
    ELSE (IF i \in at THEN <<q[i]>> ELSE <<>>) \o Pick(q, at, i + 1)

\* The values of the elements the last operation deleted, in the order it
\* deleted them: the one of delete, all of them for destroy, those at the
\* steps of its callback for a traversal that deletes.
Deleted ==
    CASE last.op = "del" -> <<last.val>>
      [] last.op = "destroy" -> last.vals
      [] last.op = "foreach_safe" /\ last.cb.k = "del" ->
           Pick(OrderVals, last.cb.at, 1)
      [] OTHER -> <<>>

C12_SafeWalkVisitsAll ==
    last.op = "foreach_safe" =>
      /\ visits = Order
      /\ fault = "none"
      /\ ~ub
      /\ ~stale

\* A reverse walk of a list of three has deleted the first and the last
\* node it met.
C12_Witness ==
    /\ last.op = "foreach_safe"
    /\ last.dir = "tail"
    /\ last.cb = Plan("del", {1, 3})
    /\ Len(last.fwd) = 3
    /\ visits = Reverse(last.fwd)
    /\ length = 1
    /\ head = last.fwd[2]

\* C13: destroy deletes every node of the list, whatever its length: it
\* ends with length 0 and no head and no tail, every node that was in the
\* list is released (and no other cell is), and the destructor, if there is
\* one, has been called once per element, from the head's to the tail's.
C13_DestroyDeletesAll ==
    last.op = "destroy" =>
      /\ length = 0
      /\ head = NULL
      /\ tail = NULL
      /\ \A n \in Nodes :
           alloc[n] <=> (last.alloc[n] /\ n \notin Range(last.fwd))
      /\ calls = (IF destructor THEN last.vals ELSE <<>>)
      /\ fault = "none"
      /\ ~ub

\* A list of three with a destructor, whose ends held different values,
\* has been destroyed.
C13_Witness ==
    /\ last.op = "destroy"
    /\ destructor
    /\ Len(last.fwd) = 3
    /\ last.vals[1] # last.vals[3]
    /\ calls = last.vals
    /\ \A n \in Range(last.fwd) : ~alloc[n]

\* C14: destroy of a list of length 0 does nothing: it calls no destructor,
\* releases no node and leaves head, tail, length and the destructor field
\* as they were.
C14_DestroyEmptyIsNoOp ==
    (last.op = "destroy" /\ last.len = 0) =>
      /\ calls = <<>>
      /\ visits = <<>>
      /\ alloc = last.alloc
      /\ head = NULL
      /\ tail = NULL
      /\ length = 0
      /\ destructor = last.d
      /\ fault = "none"
      /\ ~ub

\* A list with a destructor that was already empty has been destroyed
\* while the caller still holds a node removed from it.
C14_Witness ==
    /\ last.op = "destroy"
    /\ last.len = 0
    /\ last.fwd = <<>>
    /\ destructor
    /\ \E n \in Nodes : alloc[n]
    /\ length = 0

\* The values the nodes of Order hold after a walk that incremented those
\* at the steps of its callback.
Incremented ==
    [i \in 1..Len(OrderVals) |->
       IF i \in last.cb.at THEN Incr(OrderVals[i]) ELSE OrderVals[i]]

\* C15: a read-only traversal whose callback only reads or changes the
\* value of the current node runs it exactly once on every node of the
\* list, in the link order of its direction, ends after length calls,
\* leaves head, tail, length and the links as they were and keeps the
\* changes of value the callback made.
C15_ReadWalkFrame ==
    (last.op = "foreach" /\ InContract) =>
      /\ visits = Order
      /\ Len(visits) = length
      /\ Fwd(St) = last.fwd
      /\ Bwd(St) = Reverse(last.fwd)
      /\ length = last.len
      /\ alloc = last.alloc
      /\ ValuesOf(St, Order) = Incremented
      /\ calls = <<>>
      /\ fault = "none"
      /\ ~ub
      /\ ~stale

\* A reverse walk of a list of three has incremented the value of the
\* first node it met, the tail, and of no other.
C15_Witness ==
    /\ last.op = "foreach"
    /\ InContract
    /\ last.dir = "tail"
    /\ last.cb = Plan("inc", {1})
    /\ Len(last.fwd) = 3
    /\ visits = Reverse(last.fwd)
    /\ entry[tail] = Incr(last.vals[3])
    /\ entry[head] = last.vals[1]

\* C16: a read-only traversal reads the next node from the current node's
\* link field after the callback has run; so when the callback removes,
\* deletes or pops the current node, the walk reads a link field of a node
\* that is no longer in the list, and for delete and pop of a node that has
\* been released.
C16_ReadWalkCorrupted ==
    (last.op = "foreach" /\ last.misuse) =>
      /\ stale
      /\ last.cb.k \in {"del", "popf", "popb"} => ub
      /\ last.cb.k = "remove" => ~ub

\* A forward walk of a list of three deleted the second node it met and
\* went on reading the released node, which did not trap.
C16_Witness ==
    /\ last.op = "foreach"
    /\ last.misuse
    /\ last.dir = "head"
    /\ last.cb = Plan("del", {2})
    /\ Len(last.fwd) = 3
    /\ stale
    /\ ub
    /\ fault = "none"
    /\ ~alloc[last.fwd[2]]

C19_FieldArgumentSame ==
    last.form = "field" =>
      /\ Core(St) = last.want
      /\ fault = "none"
      /\ ~ub

\* LIST_REMOVE with the node argument list->tail does leave the state that
\* passing the tail in a variable leaves.
RemoveTailFieldSame ==
    (last.form = "field" /\ last.op = "remove" /\ last.dir = "tail") =>
      /\ Core(St) = last.want
      /\ ~ub

\* So does LIST_REMOVE with list->head on a list of three or more.
RemoveHeadFieldLongSame ==
    (last.form = "field" /\ last.op = "remove" /\ Len(last.fwd) >= 3) =>
      /\ Core(St) = last.want
      /\ ~ub

\* The neighbours the removed node had in the list before the operation.
FormerPrev == IF RemovedAt > 1 THEN last.fwd[RemovedAt - 1] ELSE NULL
FormerNext ==
    IF RemovedAt < Len(last.fwd) THEN last.fwd[RemovedAt + 1] ELSE NULL

\* C20: remove leaves the removed node's own prev and next as they were,
\* pointing at its former neighbours; so a read-only traversal whose
\* callback only removes the current node, without releasing it, still
\* runs on every node the list had at the start exactly once, with no
\* invalid access, and when it removed at every step the list it leaves is
\* empty and well formed.
C20_RemoveKeepsOwnLinks ==
    /\ (last.op = "remove" /\ InContract) =>
         /\ prev[last.node] = FormerPrev
         /\ next[last.node] = FormerNext
    /\ (last.op = "foreach" /\ last.cb.k = "remove") =>
         /\ visits = Order
         /\ alloc = last.alloc
         /\ fault = "none"
         /\ ~ub
         /\ last.cb.at = 1..last.len =>
              /\ head = NULL
              /\ tail = NULL
              /\ length = 0
              /\ WellFormed(St)

\* A reverse read-only walk has removed every node of a list of three: it
\* met all of them, none is released, and each still points along prev at
\* the neighbour it had when it was removed.
C20_Witness ==
    /\ last.op = "foreach"
    /\ last.dir = "tail"
    /\ last.cb = Plan("remove", {1, 2, 3})
    /\ Len(last.fwd) = 3
    /\ visits = Reverse(last.fwd)
    /\ length = 0
    /\ head = NULL
    /\ \A n \in Range(last.fwd) : alloc[n]
    /\ prev[last.fwd[3]] = last.fwd[2]
    /\ prev[last.fwd[2]] = last.fwd[1]

====
